---- MODULE Spec2Model ----
(***************************************************************************)
(* Model of pymatgen/io/vasp/optics.py: the smearing kernels (step_func,   *)
(* delta_func), their discretisation on an energy grid (get_step,          *)
(* get_delta) and the generator epsilon_imag.                              *)
(*                                                                         *)
(* Numbers.  Real values are exact rationals <<n, d>> (d > 0, lowest       *)
(* terms); complex values are pairs <<re, im>> of rationals.  The          *)
(* transcendental primitives erf(x), exp(-x^2)/sqrt(pi) and 1/(1+exp(-x))  *)
(* are sampled at the half-integers and rounded to two decimals; every     *)
(* argument the model produces is a half-integer.  Arrays are functions    *)
(* on 0 .. n-1, as in the source; numpy's broadcasting of one-dimensional  *)
(* arrays is modelled where the source relies on it.                       *)
(***************************************************************************)
EXTENDS Integers, Sequences, FiniteSets, TLC

(***************************************************************************)
(* Exact rational arithmetic                                               *)
(***************************************************************************)
Abs(n) == IF n < 0 THEN -n ELSE n

RECURSIVE Gcd(_, _)
Gcd(a, b) == IF b = 0 THEN a ELSE Gcd(b, a % b)

Norm(n, d) ==
    LET s == IF d < 0 THEN -1 ELSE 1
        g == Gcd(Abs(n), Abs(d))
    IN  IF n = 0 THEN <<0, 1>> ELSE <<(s * n) \div g, (s * d) \div g>>

Rat(n) == <<n, 1>>
Zero == <<0, 1>>
One == <<1, 1>>

RAdd(a, b) ==
    LET g == Gcd(a[2], b[2])
    IN  Norm(a[1] * (b[2] \div g) + b[1] * (a[2] \div g), a[2] * (b[2] \div g))

RNeg(a) == <<-a[1], a[2]>>
RSub(a, b) == RAdd(a, RNeg(b))

RMul(a, b) ==
    IF a[1] = 0 THEN Zero
    ELSE IF b[1] = 0 THEN Zero
    ELSE LET g1 == Gcd(Abs(a[1]), b[2])
             g2 == Gcd(Abs(b[1]), a[2])
         IN  <<(a[1] \div g1) * (b[1] \div g2), (a[2] \div g2) * (b[2] \div g1)>>

\* a / b for b # 0
RDiv(a, b) == RMul(a, IF b[1] < 0 THEN <<-b[2], -b[1]>> ELSE <<b[2], b[1]>>)

\* smallest integer >= a
RCeil(a) == -((-a[1]) \div a[2])

\* complex numbers
CZero == <<Zero, Zero>>
Cplx(re, im) == <<Rat(re), Rat(im)>>
CAdd(u, v) == <<RAdd(u[1], v[1]), RAdd(u[2], v[2])>>
CMul(u, v) == <<RSub(RMul(u[1], v[1]), RMul(u[2], v[2])),
               RAdd(RMul(u[1], v[2]), RMul(u[2], v[1]))>>
conjugate(u) == <<u[1], RNeg(u[2])>>
\* complex times real scalar
CScale(u, r) == <<RMul(u[1], r), RMul(u[2], r)>>

\* arrays: functions on 0 .. n-1
Len0(a) == Cardinality(DOMAIN a)
EmptyArr == [k \in {} |-> Zero]

(***************************************************************************)
(* Sampled primitives.  The argument is x = h/2; values are hundredths.    *)
(***************************************************************************)
ErfTab == <<0, 52, 84, 97>>            \* 100*erf(h/2), h = 0 .. 3; 100 beyond
GaussTab == <<56, 44, 21, 6, 1>>       \* 100*exp(-x^2)/sqrt(pi), h = 0 .. 4; 0 beyond
FermiTab == <<50, 62, 73, 82, 88, 92, 95, 97, 98, 99, 99>>  \* 100/(1+exp(-x)), h = 0 .. 10

\* h = 2x for a half-integer x
Half(x) == (2 * x[1]) \div x[2]

erf(x) ==
    LET h == Half(x)
        m == IF Abs(h) < Len(ErfTab) THEN ErfTab[Abs(h) + 1] ELSE 100
    IN  Norm(IF h < 0 THEN -m ELSE m, 100)

\* exp(-x*x) / sqrt(pi)
gauss(x) ==
    LET h == Abs(Half(x))
    IN  Norm(IF h < Len(GaussTab) THEN GaussTab[h + 1] ELSE 0, 100)

\* 1 / (1 + exp(-x))
logistic(x) ==
    LET h == Half(x)
        m == IF Abs(h) < Len(FermiTab) THEN FermiTab[Abs(h) + 1] ELSE 100
    IN  Norm(IF h < 0 THEN 100 - m ELSE m, 100)

\* physicists' Hermite polynomial H_k(x)
RECURSIVE eval_hermite(_, _)
eval_hermite(k, x) ==
    IF k = 0 THEN One
    ELSE IF k = 1 THEN RMul(Rat(2), x)
    ELSE RSub(RMul(RMul(Rat(2), x), eval_hermite(k - 1, x)),
              RMul(Rat(2 * (k - 1)), eval_hermite(k - 2, x)))

RECURSIVE factorial(_)
factorial(i) == IF i <= 0 THEN 1 ELSE i * factorial(i - 1)

RECURSIVE Pow4(_)
Pow4(i) == IF i <= 0 THEN 1 ELSE 4 * Pow4(i - 1)

\* A_i * sqrt(pi) = (-1)^i / (i! 4^i)
Acoef(i) == Norm(IF i % 2 = 0 THEN 1 ELSE -1, factorial(i) * Pow4(i))

\* sum_{i = lo .. n} A_i sqrt(pi) * H_{2i - off}(x)      (np.dot(A, H.T))
RECURSIVE HermiteSum(_, _, _, _)
HermiteSum(lo, n, off, x) ==
    IF n < lo THEN Zero
    ELSE RAdd(HermiteSum(lo, n - 1, off, x),
              RMul(Acoef(n), eval_hermite(2 * n - off, x)))

delta_methfessel_paxton(x, n) == RMul(gauss(x), HermiteSum(0, n, 0, x))

step_methfessel_paxton(x, n) ==
    RSub(RDiv(RAdd(One, erf(x)), Rat(2)), RMul(gauss(x), HermiteSum(1, n, 1, x)))

\* the if-chain of step_func (lines 60-64): the branch an ismear takes
step_branch(ismear) ==
    IF ismear = -1 THEN "fermi_dirac"
    ELSE IF ismear < 0 THEN "gaussian"
    ELSE "methfessel_paxton"

step_func(x, ismear) ==
    CASE step_branch(ismear) = "fermi_dirac" -> logistic(x)
      [] step_branch(ismear) = "gaussian" -> RAdd(<<1, 2>>, RMul(<<1, 2>>, erf(x)))
      [] OTHER -> step_methfessel_paxton(x, ismear)

\* mutant: the Gaussian test of delta_func written ismear <= 0
delta_branch_le(ismear) ==
    IF ismear = -1 THEN "fermi_dirac"
    ELSE IF ismear <= 0 THEN "gaussian"
    ELSE "methfessel_paxton"

\* the if-chain of delta_func (lines 51-55)
delta_branch(ismear) ==
    IF ismear = -1 THEN "fermi_dirac"
    ELSE IF ismear < 0 THEN "gaussian"
    ELSE "methfessel_paxton"

delta_func(x, ismear) ==
    CASE delta_branch(ismear) = "fermi_dirac" ->
            RMul(step_func(x, -1), RSub(One, step_func(x, -1)))
      [] delta_branch(ismear) = "gaussian" -> gauss(x)
      [] OTHER -> delta_methfessel_paxton(x, ismear)

(***************************************************************************)
(* Grid discretisation                                                     *)
(***************************************************************************)
\* np.arange(0, stop, step) for step # 0: ceil(stop / step) points k * step
arange(stop, step) ==
    LET q == RCeil(RDiv(stop, step))
        n == IF q < 0 THEN 0 ELSE q
    IN  [k \in 0 .. n - 1 |-> RMul(Rat(k), step)]

\* numpy: a -= b with b one-dimensional is defined iff len(b) is 1 or len(a)
CanISub(a, b) == Len0(b) = 1 \/ Len0(b) = Len0(a)
ISub(a, b) == [k \in DOMAIN a |-> RSub(a[k], IF Len0(b) = 1 THEN b[0] ELSE b[k])]

\* the scaled sample points of get_step / get_delta; x0 is an array
x_scaled(x0, sigma, nx, dx) ==
    LET xgrid == ISub(arange(RMul(Rat(nx), dx), dx), x0)
    IN  [k \in DOMAIN xgrid |-> RDiv(RAdd(xgrid[k], RDiv(dx, Rat(2))), sigma)]

get_step(x0, sigma, nx, dx, ismear) ==
    LET xs == x_scaled(x0, sigma, nx, dx)
    IN  [k \in DOMAIN xs |-> step_func(xs[k], ismear)]

\* mutant: the difference of the step array is not divided by dx
get_delta_undivided(x0, sigma, nx, dx, ismear) ==
    LET xs == x_scaled(x0, sigma, nx, dx)
        sfun == [k \in DOMAIN xs |-> step_func(xs[k], ismear)]
    IN  [k \in DOMAIN xs |-> IF k = 0 THEN Zero ELSE RSub(sfun[k], sfun[k - 1])]

get_delta(x0, sigma, nx, dx, ismear) ==
    LET xs == x_scaled(x0, sigma, nx, dx)
        sfun == [k \in DOMAIN xs |-> step_func(xs[k], ismear)]
    IN  [k \in DOMAIN xs |-> IF k = 0 THEN Zero ELSE RDiv(RSub(sfun[k], sfun[k - 1]), dx)]

(***************************************************************************)
(* epsilon_imag: a generator.  The caller's arrays cder, eigs, kweights    *)
(* and the scalars are the arguments bound at the call; the locals of the  *)
(* generator frame live from the first request on.  egrid is one array     *)
(* object, referenced by the frame and by every yielded pair; every        *)
(* yielded spectrum is an object of its own.                               *)
(***************************************************************************)
VARIABLES
    shape,          \* cder.shape[:4] = <<nbands, nbands, nkpoints, nspin>>
    cder,           \* [<<ib, jb, ik, ispin, dir>> -> complex]
    eigs,           \* [<<ib, ik, ispin>> -> real]
    kweights,       \* [0 .. nkpoints-1 -> real]
    efermi, nedos, deltae, ismear, sigma,
    args0,          \* the caller's arrays as they were at the call
    pc,             \* "created", "suspended", "done" or "failed"
    kdir,           \* position of itertools.product(range(3), range(3))
    norm_kweights, eigs_shifted, rspin,     \* locals of the frame
    egrid,          \* contents of the egrid array object
    out,            \* the pairs as the consumer received them
    spectra,        \* current contents of the yielded spectrum objects
    requests,       \* next() calls made
    naccum,         \* executions of line 150 (accumulations started)
    nmut,           \* element writes made by the consumer
    used,           \* ismear arguments passed by the last iteration
    call            \* a direct call of get_step / get_delta and its result

vars == <<shape, cder, eigs, kweights, efermi, nedos, deltae, ismear, sigma, args0,
          pc, kdir, norm_kweights, eigs_shifted, rspin, egrid, out, spectra,
          requests, naccum, nmut, used, call>>

inputs == <<shape, cder, efermi, nedos, deltae, ismear, sigma, args0, call>>

(***************************************************************************)
(* Bounds and input sets                                                   *)
(***************************************************************************)
NBands == 2
NKpoints == 2
MaxNedos == 2
MaxRequests == 10
MaxMutations == 1       \* writes of the consumer, all into the first MaxMutations pairs

NSpins == {1, 2}
EGaps == {1}
EFermis == {1}
Grids == {<<2, 1>>, <<2, 2>>, <<4, 2>>}        \* <<deltae, sigma>>
Ismears == {-2, -1, 0, 1}
I == <<Zero, One>>
VZero == <<CZero, CZero, CZero>>
VDir0 == <<Cplx(1, 0), CZero, CZero>>
VDir1 == <<CZero, Cplx(1, 1), CZero>>
VFull == <<I, Cplx(1, 1), Cplx(2, -1)>>
CderCases == {<<VZero, VZero>>, <<VDir0, VDir1>>, <<VFull, VDir0>>}
MutVal == Rat(77)
MaxX0 == 2
NoCall == [fn |-> "none"]

Bands(sh) == 0 .. sh[1] - 1
Kpoints(sh) == 0 .. sh[3] - 1
Spins(sh) == 0 .. sh[4] - 1
CderIndex(sh) == Bands(sh) \X Bands(sh) \X Kpoints(sh) \X Spins(sh) \X (0 .. 2)
EigsIndex(sh) == Bands(sh) \X Kpoints(sh) \X Spins(sh)

MakeCder(sh, u, v) ==
    [x \in CderIndex(sh) |-> IF (x[1] + x[3] + x[4]) % 2 = 0 THEN u[x[5] + 1] ELSE v[x[5] + 1]]
MakeEigs(sh, gap) ==
    [x \in EigsIndex(sh) |-> Rat(x[1] * (gap + x[2]) + x[3] * (1 - x[1]))]
MakeKweights(sh) == [k \in Kpoints(sh) |-> Rat(k + 1)]

(***************************************************************************)
(* The body of epsilon_imag                                                *)
(***************************************************************************)
RECURSIVE SumArr(_, _)
SumArr(a, n) == IF n = 0 THEN Zero ELSE RAdd(SumArr(a, n - 1), a[n - 1])

\* line 140: np.array(kweights) / np.sum(kweights); arg is kweights afterwards
normalize(kw) ==
    [result |-> [k \in DOMAIN kw |-> RDiv(kw[k], SumArr(kw, Len0(kw)))], arg |-> kw]

\* mutant: eigs -= efermi, the shift done in place
shift_in_place(e, ef) ==
    [result |-> [x \in DOMAIN e |-> RSub(e[x], ef)], arg |-> [x \in DOMAIN e |-> RSub(e[x], ef)]]

\* line 142: eigs - efermi; arg is eigs afterwards
shift(e, ef) ==
    [result |-> [x \in DOMAIN e |-> RSub(e[x], ef)], arg |-> e]

\* a[ib, ik] of an array of shape (nbands, nkpoints, nspin)
Row(a, ib, ik) == [s \in Spins(shape) |-> a[<<ib, ik, s>>]]

\* numpy elementwise product of two one-dimensional arrays
CanBroadcast(a, b) == Len0(a) = Len0(b) \/ Len0(a) = 1 \/ Len0(b) = 1
BAt(a, k) == IF Len0(a) = 1 THEN a[0] ELSE a[k]
BMul(a, b) ==
    LET n == IF Len0(a) = 1 THEN Len0(b) ELSE Len0(a)
    IN  [k \in 0 .. n - 1 |-> RMul(BAt(a, k), BAt(b, k))]

\* np.ndindex(cder.shape[:4]): the n-th index <<ib, jb, ik, ispin>>
NIndex == shape[1] * shape[2] * shape[3] * shape[4]
ndindex(n) ==
    <<n \div (shape[2] * shape[3] * shape[4]),
      (n \div (shape[3] * shape[4])) % shape[2],
      (n \div shape[4]) % shape[3],
      n % shape[4]>>

\* the ismear passed to step_func at lines 153-154
fermi_ismear == ismear

\* lines 153-155
weight(es, nkw, rs, ib, jb, ik) ==
    LET fermi_w_i == [s \in Spins(shape) |->
                         step_func(RDiv(Row(es, ib, ik)[s], sigma), fermi_ismear)]
        fermi_w_j == [s \in Spins(shape) |->
                         step_func(RDiv(Row(es, jb, ik)[s], sigma), fermi_ismear)]
    IN  [s \in Spins(shape) |->
            RMul(RMul(RSub(fermi_w_j[s], fermi_w_i[s]), Rat(rs)), nkw[ik])]

\* line 156
decel(ib, jb, ik) == [s \in Spins(shape) |-> RSub(Row(eigs, jb, ik)[s], Row(eigs, ib, ik)[s])]

\* mutant: both factors taken in direction idir
coupling_same_dir(x, idir, jdir) ==
    CMul(cder[<<x[1], x[2], x[3], x[4], idir>>],
         conjugate(cder[<<x[1], x[2], x[3], x[4], idir>>]))

\* mutant: the second factor not conjugated
coupling_no_conjugate(x, idir, jdir) ==
    CMul(cder[<<x[1], x[2], x[3], x[4], idir>>], cder[<<x[1], x[2], x[3], x[4], jdir>>])

\* line 157
coupling(x, idir, jdir) ==
    CMul(cder[<<x[1], x[2], x[3], x[4], idir>>],
         conjugate(cder[<<x[1], x[2], x[3], x[4], jdir>>]))

\* the ismear passed to get_delta at line 162
delta_ismear == ismear

\* line 162 raises iff the in-place subtraction of get_delta cannot broadcast
smeared_ok(x) == CanISub(arange(RMul(Rat(nedos), deltae), deltae), decel(x[1], x[2], x[3]))

\* line 162
smeared(es, nkw, rs, x, idir, jdir) ==
    LET d == get_delta(decel(x[1], x[2], x[3]), sigma, nedos, deltae, delta_ismear)
        w == BMul(weight(es, nkw, rs, x[1], x[2], x[3]), d)
        A == coupling(x, idir, jdir)
    IN  [k \in DOMAIN w |-> CScale(A, w[k])]

\* lines 150-163: zeros_like(egrid) plus the smeared terms of the indices
\* lo .. hi-1 of the inner loop (the sum is exact, so it is split in halves)
RECURSIVE accumulate(_, _, _, _, _, _, _, _)
accumulate(lo, hi, len, es, nkw, rs, idir, jdir) ==
    IF hi <= lo THEN [k \in 0 .. len - 1 |-> CZero]
    ELSE IF hi = lo + 1
    THEN LET sm == smeared(es, nkw, rs, ndindex(lo), idir, jdir)
         IN  [k \in 0 .. len - 1 |-> CAdd(CZero, BAt(sm, k))]
    ELSE LET mid == (lo + hi) \div 2
             a == accumulate(lo, mid, len, es, nkw, rs, idir, jdir)
             b == accumulate(mid, hi, len, es, nkw, rs, idir, jdir)
         IN  [k \in 0 .. len - 1 |-> CAdd(a[k], b[k])]

\* itertools.product(range(3), range(3))
product(k) == <<k \div 3, k % 3>>

\* mutant: every remaining direction pair is accumulated at the request
resume_eager(k, grid, es, nkw, rs) ==
    IF \E n \in 0 .. NIndex - 1 : ~smeared_ok(ndindex(n))
    THEN [ok |-> FALSE, epsdd |-> EmptyArr, next |-> k, accums |-> 1]
    ELSE [ok |-> TRUE,
          epsdd |-> accumulate(0, NIndex, Len0(grid), es, nkw, rs, product(k)[1], product(k)[2]),
          next |-> k + 1, accums |-> 9 - k]

\* the generator resumed at the head of the outer loop, position k, up to the
\* next yield (or the exception): one execution of lines 150-164
resume(k, grid, es, nkw, rs) ==
    IF \E n \in 0 .. NIndex - 1 : ~smeared_ok(ndindex(n))
    THEN [ok |-> FALSE, epsdd |-> EmptyArr, next |-> k, accums |-> 1]
    ELSE [ok |-> TRUE,
          epsdd |-> accumulate(0, NIndex, Len0(grid), es, nkw, rs, product(k)[1], product(k)[2]),
          next |-> k + 1, accums |-> 1]

\* what the consumer receives at the yield of line 164: the egrid object and
\* the fresh epsdd object, seen with their contents at that moment
yielded(k, grid, epsdd) == [dir |-> product(k), egrid |-> grid, epsdd |-> epsdd]

Init ==
    /\ \E ns \in NSpins, c \in CderCases, gap \in EGaps :
          /\ shape = <<NBands, NBands, NKpoints, ns>>
          /\ cder = MakeCder(shape, c[1], c[2])
          /\ eigs = MakeEigs(shape, gap)
          /\ kweights = MakeKweights(shape)
    /\ efermi \in {Rat(e) : e \in EFermis}
    /\ nedos \in 0 .. MaxNedos
    /\ \E g \in Grids : deltae = Rat(g[1]) /\ sigma = Rat(g[2])
    /\ ismear \in Ismears
    /\ args0 = [cder |-> cder, eigs |-> eigs, kweights |-> kweights]
    /\ pc = "created"
    /\ kdir = 0
    /\ norm_kweights = EmptyArr /\ eigs_shifted = EmptyArr /\ rspin = 0
    /\ egrid = EmptyArr
    /\ out = <<>> /\ spectra = <<>>
    /\ requests = 0 /\ naccum = 0 /\ nmut = 0
    /\ used = {}
    /\ call = NoCall

\* the effect of a resumption r that started at position k with egrid = grid
Deliver(k, grid, r) ==
    /\ pc' = IF r.ok THEN "suspended" ELSE "failed"
    /\ kdir' = r.next
    /\ out' = IF r.ok THEN Append(out, yielded(k, grid, r.epsdd)) ELSE out
    /\ spectra' = IF r.ok THEN Append(spectra, r.epsdd) ELSE spectra
    /\ requests' = requests + 1
    /\ naccum' = naccum + r.accums
    /\ used' = {<<"step_func", fermi_ismear>>, <<"get_delta", delta_ismear>>}

\* the first next(): lines 140-144, then the first iteration
FirstRequest ==
    /\ pc = "created"
    /\ LET nkw == normalize(kweights)
           sh == shift(eigs, efermi)
           grid == arange(RMul(Rat(nedos), deltae), deltae)
           rs == 3 - shape[4]
       IN  /\ kweights' = nkw.arg
           /\ eigs' = sh.arg
           /\ norm_kweights' = nkw.result
           /\ eigs_shifted' = sh.result
           /\ rspin' = rs
           /\ egrid' = grid
           /\ Deliver(0, grid, resume(0, grid, sh.result, nkw.result, rs))
    /\ UNCHANGED <<inputs, nmut>>

\* a later next() while direction pairs remain
NextRequest ==
    /\ pc = "suspended"
    /\ kdir < 9
    /\ Deliver(kdir, egrid, resume(kdir, egrid, eigs_shifted, norm_kweights, rspin))
    /\ UNCHANGED <<inputs, eigs, kweights, norm_kweights, eigs_shifted, rspin, egrid, nmut>>

\* next() after the ninth pair: the loop ends, StopIteration
Exhaust ==
    /\ pc = "suspended"
    /\ kdir >= 9
    /\ pc' = "done"
    /\ requests' = requests + 1
    /\ UNCHANGED <<inputs, eigs, kweights, kdir, norm_kweights, eigs_shifted, rspin, egrid,
                   out, spectra, naccum, nmut, used>>

\* next() on a finished generator: StopIteration again
RequestAfterEnd ==
    /\ pc \in {"done", "failed"}
    /\ requests < MaxRequests
    /\ requests' = requests + 1
    /\ UNCHANGED <<inputs, eigs, kweights, pc, kdir, norm_kweights, eigs_shifted, rspin, egrid,
                   out, spectra, naccum, nmut, used>>

\* the consumer writes an element of the energy grid it was handed
MutateGrid ==
    /\ pc = "suspended"
    /\ nmut < MaxMutations
    /\ Len(out) <= MaxMutations
    /\ Len0(egrid) > 0
    /\ egrid' = [egrid EXCEPT ![0] = MutVal]
    /\ nmut' = nmut + 1
    /\ UNCHANGED <<inputs, eigs, kweights, pc, kdir, norm_kweights, eigs_shifted, rspin,
                   out, spectra, requests, naccum, used>>

\* the consumer writes an element of the spectrum it was handed last
MutateSpectrum ==
    /\ pc = "suspended"
    /\ nmut < MaxMutations
    /\ Len(out) <= MaxMutations
    /\ Len0(spectra[Len(spectra)]) > 0
    /\ spectra' = [spectra EXCEPT ![Len(spectra)][0] = <<MutVal, Zero>>]
    /\ nmut' = nmut + 1
    /\ UNCHANGED <<inputs, eigs, kweights, pc, kdir, norm_kweights, eigs_shifted, rspin, egrid,
                   out, requests, naccum, used>>

Next ==
    \/ FirstRequest
    \/ NextRequest
    \/ Exhaust
    \/ RequestAfterEnd
    \/ MutateGrid
    \/ MutateSpectrum

Spec == Init /\ [][Next]_vars

(***************************************************************************)
(* Direct calls of get_step and get_delta with a scalar x0                 *)
(***************************************************************************)
InitGrid ==
    /\ shape = <<0, 0, 0, 1>> /\ cder = EmptyArr /\ eigs = EmptyArr /\ kweights = EmptyArr
    /\ efermi = Zero /\ nedos = 0 /\ deltae = One /\ ismear = 0 /\ sigma = One
    /\ args0 = [cder |-> cder, eigs |-> eigs, kweights |-> kweights]
    /\ pc = "none" /\ kdir = 0
    /\ norm_kweights = EmptyArr /\ eigs_shifted = EmptyArr /\ rspin = 0
    /\ egrid = EmptyArr /\ out = <<>> /\ spectra = <<>>
    /\ requests = 0 /\ naccum = 0 /\ nmut = 0 /\ used = {}
    /\ \E x \in -MaxX0 .. MaxX0, g \in Grids, n \in 0 .. MaxNedos, m \in Ismears :
          call = [fn |-> "pending", x0 |-> Rat(x), sigma |-> Rat(g[2]), nx |-> n,
                  dx |-> Rat(g[1]), ismear |-> m, result |-> EmptyArr]

Scalar(x) == [k \in {0} |-> x]

CallGetStep ==
    /\ call.fn = "pending"
    /\ call' = [call EXCEPT !.fn = "get_step",
                            !.result = get_step(Scalar(call.x0), call.sigma, call.nx,
                                                call.dx, call.ismear)]
    /\ UNCHANGED <<shape, cder, eigs, kweights, efermi, nedos, deltae, ismear, sigma, args0,
                   pc, kdir, norm_kweights, eigs_shifted, rspin, egrid, out, spectra,
                   requests, naccum, nmut, used>>

CallGetDelta ==
    /\ call.fn = "pending"
    /\ call' = [call EXCEPT !.fn = "get_delta",
                            !.result = get_delta(Scalar(call.x0), call.sigma, call.nx,
                                                 call.dx, call.ismear)]
    /\ UNCHANGED <<shape, cder, eigs, kweights, efermi, nedos, deltae, ismear, sigma, args0,
                   pc, kdir, norm_kweights, eigs_shifted, rspin, egrid, out, spectra,
                   requests, naccum, nmut, used>>

NextGrid ==
    \/ CallGetStep
    \/ CallGetDelta

SpecGrid == InitGrid /\ [][NextGrid]_vars

(***************************************************************************)
(* Properties                                                              *)
(***************************************************************************)
Min(a, b) == IF a < b THEN a ELSE b
Yielded == 1 .. Len(out)
Index4 == Bands(shape) \X Bands(shape) \X Kpoints(shape) \X Spins(shape)
Zeros(n) == [k \in 0 .. n - 1 |-> CZero]
\* 0, deltae, ..., (nedos-1)*deltae
EnergyGrid == [k \in 0 .. nedos - 1 |-> RMul(Rat(k), deltae)]
ValidGrid == nedos >= 1 /\ deltae[1] > 0

\* C1: for every valid input (nedos >= 1, deltae > 0) and a consumer that only
\* requests, the generator never fails, the k-th request yields the pair of
\* direction (k div 3, k mod 3), every yielded energy grid is 0, deltae, ...,
\* (nedos-1)*deltae, every spectrum has length nedos, and after nine pairs
\* the generator stops.
C1_NinePairsInOrder ==
    (ValidGrid /\ sigma[1] > 0 /\ nmut = 0 /\ pc # "none") =>
        /\ pc # "failed"
        /\ Len(out) = Min(requests, 9)
        /\ (requests > 9 => pc = "done")
        /\ \A k \in Yielded :
              /\ out[k].dir = <<(k - 1) \div 3, (k - 1) % 3>>
              /\ out[k].egrid = EnergyGrid
              /\ DOMAIN out[k].epsdd = 0 .. nedos - 1

\* the sum the claim C2 describes: scalar weight and decel per (ib, jb, ik, ispin)
RefTerm(x, idir, jdir) ==
    LET ib == x[1]
        jb == x[2]
        ik == x[3]
        sp == x[4]
        occ(b) == step_func(RDiv(RSub(eigs[<<b, ik, sp>>], efermi), sigma), ismear)
        w == RMul(RMul(RSub(occ(jb), occ(ib)), Rat(3 - shape[4])),
                  RDiv(kweights[ik], SumArr(kweights, Len0(kweights))))
        dec == RSub(eigs[<<jb, ik, sp>>], eigs[<<ib, ik, sp>>])
        d == get_delta(Scalar(dec), sigma, nedos, deltae, ismear)
        A == CMul(cder[<<ib, jb, ik, sp, idir>>], conjugate(cder[<<ib, jb, ik, sp, jdir>>]))
    IN  [k \in 0 .. nedos - 1 |-> CScale(A, RMul(w, d[k]))]

RECURSIVE RefSum(_, _, _, _)
RefSum(lo, hi, idir, jdir) ==
    IF hi <= lo THEN Zeros(nedos)
    ELSE IF hi = lo + 1
    THEN LET t == RefTerm(ndindex(lo), idir, jdir)
         IN  [k \in 0 .. nedos - 1 |-> CAdd(CZero, t[k])]
    ELSE LET mid == (lo + hi) \div 2
             a == RefSum(lo, mid, idir, jdir)
             b == RefSum(mid, hi, idir, jdir)
         IN  [k \in 0 .. nedos - 1 |-> CAdd(a[k], b[k])]

\* C2: with consistent shapes and nspin in {1, 2} no request fails, and the
\* spectrum yielded for (i, j) is the sum over all (ib, jb, ik, ispin) of
\* get_delta(x0 = decel) * weight * A with scalar weight and decel.
C2_SpectrumIsBandPairSum ==
    (ValidGrid /\ sigma[1] > 0 /\ pc # "none") =>
        /\ pc # "failed"
        /\ \A k \in Yielded : out[k].epsdd = RefSum(0, NIndex, out[k].dir[1], out[k].dir[2])

\* C3: an input with nedos <= 0, deltae <= 0 or sigma <= 0 makes the call fail
\* at once: nothing is computed and no pair is ever yielded.
C3_EagerValidation ==
    ((nedos <= 0 \/ deltae[1] <= 0 \/ sigma[1] <= 0) /\ pc # "none") =>
        /\ pc = "failed"
        /\ requests = 0
        /\ naccum = 0
        /\ out = <<>>

\* C4: a yielded spectrum of a direction pair (i, j) such that every
\* (ib, jb, ik, ispin) has cder[.., i] = 0 or cder[.., j] = 0 is all-zero and
\* has length nedos.
ZeroPair(i, j) ==
    \A x \in Index4 : \/ cder[<<x[1], x[2], x[3], x[4], i>>] = CZero
                      \/ cder[<<x[1], x[2], x[3], x[4], j>>] = CZero

C5_SwapIsConjugate ==
    \A k \in Yielded, l \in Yielded :
        (out[l].dir = <<out[k].dir[2], out[k].dir[1]>>) =>
            out[l].epsdd = [n \in DOMAIN out[k].epsdd |-> conjugate(out[k].epsdd[n])]

\* both (i, j) and (j, i), i # j, were yielded with a non-real spectrum
C5_Witness ==
    \E k \in Yielded, l \in Yielded :
        /\ out[k].dir[1] # out[k].dir[2]
        /\ out[l].dir = <<out[k].dir[2], out[k].dir[1]>>
        /\ \E n \in DOMAIN out[k].epsdd : out[k].epsdd[n][2] # Zero

MaxOrder == 2
MaxH == 4

\* C7: step_func and delta_func take the same branch for every ismear: -1 is
\* Fermi-Dirac, any other negative value Gaussian, n >= 0 Methfessel-Paxton of
\* order n, where order 0 leaves the correction sum of the step empty; and
\* epsilon_imag passes its ismear both to step_func and to get_delta.
C7_SameSchemeEverywhere ==
    /\ \A m \in -(MaxOrder + 2) .. MaxOrder :
          /\ step_branch(m) = delta_branch(m)
          /\ step_branch(m) = (IF m = -1 THEN "fermi_dirac"
                               ELSE IF m < 0 THEN "gaussian" ELSE "methfessel_paxton")
    /\ \A h \in -MaxH .. MaxH :
          LET x == Norm(h, 2)
          IN  /\ step_func(x, ismear) =
                    (IF ismear = -1 THEN logistic(x)
                     ELSE IF ismear < 0 THEN RAdd(<<1, 2>>, RMul(<<1, 2>>, erf(x)))
                     ELSE step_methfessel_paxton(x, ismear))
              /\ delta_func(x, ismear) =
                    (IF ismear = -1 THEN RMul(logistic(x), RSub(One, logistic(x)))
                     ELSE IF ismear < 0 THEN gauss(x)
                     ELSE delta_methfessel_paxton(x, ismear))
              /\ step_func(x, 0) = RDiv(RAdd(One, erf(x)), Rat(2))
    /\ \A u \in used : u[2] = ismear

\* a pair was accumulated with ismear = 0 and its spectrum is not all-zero
C7_Witness ==
    /\ ismear = 0
    /\ used = {<<"step_func", 0>>, <<"get_delta", 0>>}
    /\ \E k \in Yielded : out[k].epsdd # Zeros(nedos)

\* C8: cder, eigs and kweights are never changed by epsilon_imag.
C8_InputsNotMutated ==
    /\ cder = args0.cder
    /\ eigs = args0.eigs
    /\ kweights = args0.kweights

\* all nine pairs were produced from a non-zero Fermi energy and weights that
\* do not sum to one
C8_Witness ==
    /\ pc = "done"
    /\ efermi # Zero
    /\ norm_kweights # kweights
    /\ eigs_shifted # eigs

\* C9: a write of the consumer into an array of an already yielded pair does
\* not show in any pair yielded later: its energy grid is still 0, deltae, ...
\* and its spectrum is what the accumulation computes.
C9_LaterPairsUnaffected ==
    (ValidGrid /\ sigma[1] > 0) =>
        \A k \in Yielded :
            /\ out[k].egrid = EnergyGrid
            /\ out[k].epsdd = accumulate(0, NIndex, nedos, eigs_shifted, norm_kweights, rspin,
                                         out[k].dir[1], out[k].dir[2])

\* C10: nothing is computed before the first request; every request starts
\* exactly one accumulation, pairs come in row-major order, at most nine are
\* produced and a finished generator yields nothing more.
C10_LazyForwardOnly ==
    (pc # "none") =>
        /\ (pc = "created" => requests = 0 /\ naccum = 0 /\ out = <<>> /\ egrid = EmptyArr)
        /\ (pc # "failed" => naccum = Min(requests, 9))
        /\ naccum = Len(out) + (IF pc = "failed" THEN 1 ELSE 0)
        /\ (pc = "failed" => requests >= 1 /\ naccum = 1)
        /\ (pc = "done" <=> (requests > 9 /\ Len(out) = 9))
        /\ \A k \in Yielded : out[k].dir = product(k - 1)

\* the consumer stopped after four requests: four accumulations, four pairs
C10_Witness == pc = "suspended" /\ requests = 4 /\ naccum = 4 /\ Len(out) = 4

====
